---- MODULE Spec2Model ----
(***************************************************************************)
(* Crowd-mode session server of JX-ZimaWhite: the Socket.IO event handlers *)
(* of backend/core/socket_server.py over the session state of              *)
(* backend/core/state.py and the OSC sender of backend/core/osc_sender.py. *)
(*                                                                         *)
(* The handlers address one show: every SessionManager call is made        *)
(* without a session id, so the model keeps the single session SHOW of     *)
(* state.py and reads join_conductor's success flag as its result.         *)
(* Times are integers in milliseconds.  Optional values are sequences of   *)
(* length at most one: None is << >> and Some(x) is << x >>.               *)
(***************************************************************************)
EXTENDS Integers, Sequences, FiniteSets, TLC

\* ------------------------------------------------------------------ bounds
\* Number of clock advances in one behaviour.
MaxAdvances == 3

\* ------------------------------------------------------- program constants
RATE_LIMIT_MS == 80
INACTIVITY_TIMEOUT_SEC == 120

\* ----------------------------------------------------------- value domains
None == << >>
Some(x) == << x >>

Sids == {"s1", "s2"}
\* The connections that send canvas:update and chord:trigger events.
Drawers == {"s1"}
NoSid == "None"
SHOW == "show"

\* A 10-value output layer (tenths), and the empty list a client may send.
O1 == <<0, 0, 0, 9, 0, 0, 0, 0, 0, 0>>
EmptyOutput == << >>

\* The instants at which the clocks are read: two steps of half the cooldown,
\* then a step of half the cooldown less than the inactivity timeout, and so
\* on: 0, 40, 80, 120040, 120080, 120120, 240080, ...
ShortStep == RATE_LIMIT_MS \div 2
LongStep == INACTIVITY_TIMEOUT_SEC * 1000 - ShortStep
StepAfter(n) == IF (n + 1) % 3 = 0 THEN LongStep ELSE ShortStep

\* Readings of time.monotonic() at the moment the server starts.
MonoStarts == {1000}

\* The reading of a monotonic clock whose reference point is the start of the
\* server.
ColdStarts == {0}

\* crowd:join payloads (data or {}); absent keys read as None.
JoinPayloads ==
    { [role |-> Some("Conductor"), username |-> None, label |-> None,
       instrument |-> None],
      [role |-> None, username |-> Some(""), label |-> Some("Ann"),
       instrument |-> Some("Synth ")] }

\* canvas:update payloads.
CanvasPayloads ==
    { [canvas |-> Some("png"), output |-> None, instrument |-> None],
      [canvas |-> None, output |-> Some(O1), instrument |-> Some("")] }

\* chord:trigger payloads.
TriggerPayloads ==
    { [output |-> None, instrument |-> None],
      [output |-> Some(EmptyOutput), instrument |-> None],
      [output |-> Some(O1), instrument |-> Some("")] }

\* --------------------------------------------------------- python helpers
\* x or default, for an optional string: None and "" are falsy.
OrStr(x, default) == IF x = None \/ x[1] = "" THEN default ELSE x[1]

\* str.lower() and str.strip() on the strings of the model.
Lower(s) ==
    CASE s = "Conductor" -> "conductor"
      [] s = "Synth " -> "synth "
      [] OTHER -> s

Strip(s) ==
    CASE s = "Synth " -> "Synth"
      [] s = "synth " -> "synth"
      [] OTHER -> s

\* dict.pop(key, None) and dict[key] = value on a dict modelled as a function.
Pop(d, k) == [x \in (DOMAIN d) \ {k} |-> d[x]]
Put(d, k, v) == [x \in (DOMAIN d) \cup {k} |-> IF x = k THEN v ELSE d[x]]

\* ------------------------------------------------------------------ state
VARIABLES
    conn,                 \* transport: "new", "open" or "closed" per sid
    joining,              \* crowd:join handlers suspended at enter_room
    sessions,             \* SessionManager.sessions (its keys)
    participants,         \* SessionState.participants of SHOW
    conductor_socket_id,  \* SessionState.conductor_socket_id of SHOW
    _last_canvas,         \* rate-limiter map of canvas:update
    _last_trigger,        \* rate-limiter map of chord:trigger
    _cleanup_task,        \* "None", "running" or "failed"
    created,              \* history: asyncio tasks created for the reaper
    now,                  \* milliseconds since the server started
    mono0,                \* time.monotonic() when the server started
    nAdv,                 \* clock advances taken
    joined,               \* history: ids joined as participant, not yet left
    out                   \* history: what the last handler emitted, in order

vars == <<conn, joining, sessions, participants, conductor_socket_id,
          _last_canvas, _last_trigger, _cleanup_task, created, now, mono0, nAdv,
          joined, out>>

show == <<sessions, participants, conductor_socket_id>>
limiter == <<_last_canvas, _last_trigger>>
clock == <<now, mono0, nAdv>>

Monotonic == mono0 + now
UtcNow == now

NoJoin == None

\* ------------------------------------------------------------- state.py
ParticipantState(socket_id, instrument, username) ==
    [socket_id |-> socket_id, instrument |-> instrument,
     username |-> username, canvas |-> None, output |-> None,
     last_seen |-> UtcNow]

\* Variant of serialize that counts the conductor among the participants.
serialize_counting(P, c) ==
    [sessionId |-> SHOW,
     participants |->
        { [socketId |-> P[s].socket_id, instrument |-> P[s].instrument,
           username |-> P[s].username, canvas |-> P[s].canvas,
           lastSeen |-> P[s].last_seen] : s \in DOMAIN P },
     hasConductor |-> c # NoSid,
     participantCount |-> Cardinality(DOMAIN P) + (IF c # NoSid THEN 1 ELSE 0)]

\* SessionState.serialize, for participants P and conductor c.
serialize(P, c) ==
    [sessionId |-> SHOW,
     participants |->
        { [socketId |-> P[s].socket_id, instrument |-> P[s].instrument,
           username |-> P[s].username, canvas |-> P[s].canvas,
           lastSeen |-> P[s].last_seen] : s \in DOMAIN P },
     hasConductor |-> c # NoSid,
     participantCount |-> Cardinality(DOMAIN P)]

\* SessionManager.snapshot: None when the session does not exist.
snapshot(S, P, c) == IF SHOW \notin S THEN None ELSE Some(serialize(P, c))

\* Variant of get_participant_chord that reads a missing output as no notes.
get_participant_chord_unset(P, socket_id) ==
    IF socket_id \notin DOMAIN P THEN None
    ELSE Some([output |-> IF P[socket_id].output = None THEN << >>
                          ELSE P[socket_id].output[1],
               instrument |-> P[socket_id].instrument])

\* SessionState.get_participant_chord.
get_participant_chord(P, socket_id) ==
    IF socket_id \notin DOMAIN P THEN None
    ELSE IF P[socket_id].output = None \/ P[socket_id].output[1] = << >>
         THEN None
         ELSE Some([output |-> P[socket_id].output[1],
                    instrument |-> P[socket_id].instrument])

\* SessionManager.get_chord_for_trigger.
get_chord_for_trigger(S, P, socket_id) ==
    IF SHOW \notin S THEN None ELSE get_participant_chord(P, socket_id)

\* SessionManager.join_participant: the participants after the call.
join_participant(P, socket_id, instrument, username) ==
    Put(P, socket_id,
        ParticipantState(socket_id, instrument, OrStr(Some(username), "anonymous")))

\* Variant of join_conductor that takes the slot over from its occupant.
join_conductor_takeover(c, socket_id) == <<socket_id, TRUE>>

\* SessionManager.join_conductor: <<conductor after the call, success>>.
join_conductor(c, socket_id) ==
    IF c # NoSid THEN <<c, FALSE>> ELSE <<socket_id, TRUE>>

\* Variant of update_participant that refreshes last_seen of every record.
update_participant_refreshing(S, P, socket_id, canvas, output, instrument) ==
    IF SHOW \notin S \/ socket_id \notin DOMAIN P THEN <<P, FALSE>>
    ELSE LET p == P[socket_id]
             q == [p EXCEPT
                     !.canvas = IF canvas # None THEN canvas ELSE @,
                     !.output = IF output # None THEN output ELSE @,
                     !.instrument = IF instrument # None THEN instrument[1] ELSE @]
         IN <<[s \in DOMAIN P |->
                 [(IF s = socket_id THEN q ELSE P[s]) EXCEPT !.last_seen = UtcNow]],
              TRUE>>

\* Variant of update_participant that stores canvas and output as received,
\* absent or not.
update_participant_overwriting(S, P, socket_id, canvas, output, instrument) ==
    IF SHOW \notin S \/ socket_id \notin DOMAIN P THEN <<P, FALSE>>
    ELSE LET p == P[socket_id]
             q == [p EXCEPT
                     !.canvas = canvas,
                     !.output = output,
                     !.instrument = IF instrument # None THEN instrument[1] ELSE @,
                     !.last_seen = UtcNow]
         IN <<Put(P, socket_id, q), TRUE>>

\* SessionManager.update_participant: <<participants after, updated>>.
update_participant(S, P, socket_id, canvas, output, instrument) ==
    IF SHOW \notin S \/ socket_id \notin DOMAIN P THEN <<P, FALSE>>
    ELSE LET p == P[socket_id]
             q == [p EXCEPT
                     !.canvas = IF canvas # None THEN canvas ELSE @,
                     !.output = IF output # None THEN output ELSE @,
                     !.instrument = IF instrument # None THEN instrument[1] ELSE @,
                     !.last_seen = UtcNow]
         IN <<Put(P, socket_id, q), TRUE>>

\* Variant of leave that releases the conductor slot whoever leaves.
leave_releasing(S, P, c, socket_id) ==
    IF SHOW \notin S THEN <<S, P, c, {}>>
    ELSE LET P2 == Pop(P, socket_id)
             c2 == NoSid
             touched == IF socket_id \in DOMAIN P \/ c # NoSid
                        THEN {SHOW} ELSE {}
             S2 == IF DOMAIN P2 = {} /\ c2 = NoSid THEN S \ {SHOW} ELSE S
         IN <<S2, P2, c2, touched>>

\* SessionManager.leave: <<sessions, participants, conductor, touched>>.
leave(S, P, c, socket_id) ==
    IF SHOW \notin S THEN <<S, P, c, {}>>
    ELSE LET P2 == Pop(P, socket_id)
             c2 == IF c = socket_id THEN NoSid ELSE c
             touched == IF socket_id \in DOMAIN P \/ c = socket_id
                        THEN {SHOW} ELSE {}
             S2 == IF DOMAIN P2 = {} /\ c2 = NoSid THEN S \ {SHOW} ELSE S
         IN <<S2, P2, c2, touched>>

\* SessionManager.get_participant: the record of socket_id, if any.
get_participant(P, socket_id) ==
    IF socket_id \in DOMAIN P THEN Some(P[socket_id]) ELSE None

\* SessionManager.remove_inactive: <<participants after, number removed>>.
\* Removes the participants whose last_seen is older than the timeout.
remove_inactive(P, timeout_sec) ==
    LET stale == {s \in DOMAIN P : P[s].last_seen < UtcNow - timeout_sec * 1000}
    IN <<[s \in (DOMAIN P) \ stale |-> P[s]], Cardinality(stale)>>

\* Variant of send_crowd_chord that addresses the instrument as received.
send_crowd_chord_raw(instrument, username, output) ==
    [osc |-> <<"crowd", instrument, "chord">>,
     payload |-> <<OrStr(Some(username), "anon")>> \o output]

\* ------------------------------------------------------- osc_sender.py
\* OscSender.send_crowd_chord: the message handed to the UDP client.
send_crowd_chord(instrument, username, output) ==
    LET safe_instrument == OrStr(Some(Strip(Lower(instrument))), "pad")
    IN [osc |-> <<"crowd", safe_instrument, "chord">>,
        payload |-> <<OrStr(Some(username), "anon")>> \o output]

\* ----------------------------------------------------- socket_server.py
Emit(event, data, target) == [event |-> event, data |-> data, to |-> target]
ToSid(sid) == <<"sid", sid>>
ToCrowd == <<"room", "crowd">>

\* Variant of _rate_ok that rejects at exactly the cooldown.
_rate_ok_strict(store, sid) ==
    LET last == IF sid \in DOMAIN store THEN store[sid] ELSE 0
    IN IF Monotonic - last <= RATE_LIMIT_MS THEN <<store, FALSE>>
       ELSE <<Put(store, sid, Monotonic), TRUE>>

\* Variant of _rate_ok that stamps the store on a rejection too.
_rate_ok_stamping(store, sid) ==
    LET last == IF sid \in DOMAIN store THEN store[sid] ELSE 0
    IN <<Put(store, sid, Monotonic), ~(Monotonic - last < RATE_LIMIT_MS)>>

\* _rate_ok: <<store after the call, admitted>>.
_rate_ok(store, sid) ==
    LET last == IF sid \in DOMAIN store THEN store[sid] ELSE 0
    IN IF Monotonic - last < RATE_LIMIT_MS THEN <<store, FALSE>>
       ELSE <<Put(store, sid, Monotonic), TRUE>>

Init ==
    /\ conn = [s \in Sids |-> "new"]
    /\ joining = [s \in Sids |-> NoJoin]
    /\ sessions = {}
    /\ participants = << >>
    /\ conductor_socket_id = NoSid
    /\ _last_canvas = << >>
    /\ _last_trigger = << >>
    /\ _cleanup_task = "None"
    /\ created = 0
    /\ now = 0
    /\ mono0 \in MonoStarts
    /\ nAdv = 0
    /\ joined = {}
    /\ out = << >>

\* Variant of connect that creates a reaper task at every connect.
connect_restarting(sid) ==
    /\ conn[sid] = "new"
    /\ conn' = [conn EXCEPT ![sid] = "open"]
    /\ _cleanup_task' = "running"
    /\ created' = created + 1
    /\ out' = <<Emit("system:welcome", [socketId |-> sid], ToSid(sid))>>
    /\ UNCHANGED <<joining, show, limiter, clock, joined>>

\* connect.
connect(sid) ==
    /\ conn[sid] = "new"
    /\ conn' = [conn EXCEPT ![sid] = "open"]
    /\ _cleanup_task' = IF _cleanup_task = "None" THEN "running" ELSE _cleanup_task
    /\ created' = IF _cleanup_task = "None" THEN created + 1 ELSE created
    /\ out' = <<Emit("system:welcome", [socketId |-> sid], ToSid(sid))>>
    /\ UNCHANGED <<joining, show, limiter, clock, joined>>

\* disconnect.
disconnect(sid) ==
    /\ conn[sid] = "open"
    /\ conn' = [conn EXCEPT ![sid] = "closed"]
    /\ _last_canvas' = Pop(_last_canvas, sid)
    /\ _last_trigger' = Pop(_last_trigger, sid)
    /\ LET r == leave(sessions, participants, conductor_socket_id, sid)
       IN /\ sessions' = r[1]
          /\ participants' = r[2]
          /\ conductor_socket_id' = r[3]
          /\ out' = IF r[4] # {}
                    THEN <<Emit("crowd:snapshot", snapshot(r[1], r[2], r[3]), ToCrowd)>>
                    ELSE << >>
    /\ joined' = joined \ {sid}
    /\ UNCHANGED <<joining, _cleanup_task, created, clock>>

\* handle_crowd_join up to its await of enter_room.
handle_crowd_join_enter(sid, data) ==
    /\ conn[sid] = "open"
    /\ joining[sid] = NoJoin
    /\ LET role == Lower(OrStr(data.role, "participant"))
           username == OrStr(data.username, OrStr(data.label, "anonymous"))
           instrument == OrStr(data.instrument, "pad")
       IN joining' = [joining EXCEPT ![sid] =
              Some([role |-> role, username |-> username, instrument |-> instrument])]
    /\ out' = << >>
    /\ UNCHANGED <<conn, show, limiter, _cleanup_task, created, clock, joined>>

\* Variant of handle_crowd_join without the return after crowd:error.
handle_crowd_join_noreturn(sid) ==
    /\ joining[sid] # NoJoin
    /\ joining' = [joining EXCEPT ![sid] = NoJoin]
    /\ LET j == joining[sid][1]
           r == join_conductor(conductor_socket_id, sid)
           isC == j.role = "conductor"
       IN /\ conductor_socket_id' = IF isC THEN r[1] ELSE conductor_socket_id
          /\ sessions' = sessions \cup {SHOW}
          /\ participants' =
                 IF isC THEN participants
                 ELSE join_participant(participants, sid, j.instrument, j.username)
          /\ joined' = IF isC THEN joined ELSE joined \cup {sid}
          /\ out' = (IF isC /\ ~r[2]
                     THEN <<Emit("crowd:error",
                                 [message |-> "A conductor is already connected."],
                                 ToSid(sid))>>
                     ELSE << >>)
                    \o <<Emit("crowd:joined", [role |-> j.role], ToSid(sid)),
                         Emit("crowd:snapshot",
                              snapshot(sessions', participants', conductor_socket_id'),
                              ToCrowd)>>
    /\ UNCHANGED <<conn, limiter, _cleanup_task, created, clock>>

\* handle_crowd_join from the return of enter_room to its end.
handle_crowd_join(sid) ==
    /\ joining[sid] # NoJoin
    /\ joining' = [joining EXCEPT ![sid] = NoJoin]
    /\ LET j == joining[sid][1]
       IN IF j.role = "conductor"
          THEN LET r == join_conductor(conductor_socket_id, sid)
               IN /\ conductor_socket_id' = r[1]
                  /\ sessions' = sessions \cup {SHOW}
                  /\ participants' = participants
                  /\ joined' = joined
                  /\ out' = IF ~r[2]
                            THEN <<Emit("crowd:error",
                                        [message |-> "A conductor is already connected."],
                                        ToSid(sid))>>
                            ELSE <<Emit("crowd:joined", [role |-> j.role], ToSid(sid)),
                                   Emit("crowd:snapshot",
                                        snapshot(sessions', participants', r[1]),
                                        ToCrowd)>>
          ELSE /\ participants' =
                      join_participant(participants, sid, j.instrument, j.username)
               /\ sessions' = sessions \cup {SHOW}
               /\ conductor_socket_id' = conductor_socket_id
               /\ joined' = joined \cup {sid}
               /\ out' = <<Emit("crowd:joined", [role |-> j.role], ToSid(sid)),
                           Emit("crowd:snapshot",
                                snapshot(sessions', participants', conductor_socket_id),
                                ToCrowd)>>
    /\ UNCHANGED <<conn, limiter, _cleanup_task, created, clock>>

\* Variant of _cleanup_inactive that broadcasts after every turn.
_cleanup_inactive_chatty(raised) ==
    /\ _cleanup_task = "running"
    /\ LET r == remove_inactive(participants, INACTIVITY_TIMEOUT_SEC)
       IN /\ participants' = r[1]
          /\ joined' = joined \ (DOMAIN participants \ DOMAIN r[1])
          /\ out' = <<Emit("crowd:snapshot",
                           snapshot(sessions, r[1], conductor_socket_id),
                           ToCrowd)>>
          /\ _cleanup_task' = IF raised THEN "failed" ELSE "running"
    /\ UNCHANGED <<conn, joining, sessions, conductor_socket_id, limiter, clock,
                   created>>

\* _cleanup_inactive: one turn of its loop, from the end of the sleep (whose
\* length is left open: a turn may come at any instant).  raised says
\* whether the emit raises: nothing in the loop catches it, and the task ends.
_cleanup_inactive(raised) ==
    /\ _cleanup_task = "running"
    /\ LET r == remove_inactive(participants, INACTIVITY_TIMEOUT_SEC)
       IN /\ participants' = r[1]
          /\ joined' = joined \ (DOMAIN participants \ DOMAIN r[1])
          /\ IF r[2] > 0
             THEN /\ out' = <<Emit("crowd:snapshot",
                                   snapshot(sessions, r[1], conductor_socket_id),
                                   ToCrowd)>>
                  /\ _cleanup_task' = IF raised THEN "failed" ELSE "running"
             ELSE /\ out' = << >>
                  /\ _cleanup_task' = "running"
    /\ UNCHANGED <<conn, joining, sessions, conductor_socket_id, limiter, clock,
                   created>>

\* handle_canvas_update.
handle_canvas_update(sid, data) ==
    /\ conn[sid] = "open"
    /\ LET a == _rate_ok(_last_canvas, sid)
           u == update_participant(sessions, participants, sid,
                                   data.canvas, data.output, data.instrument)
       IN /\ _last_canvas' = a[1]
          /\ IF ~a[2]
             THEN /\ participants' = participants
                  /\ out' = << >>
             ELSE /\ participants' = u[1]
                  /\ out' = IF ~u[2] THEN << >>
                            ELSE <<Emit("crowd:snapshot",
                                        snapshot(sessions, u[1], conductor_socket_id),
                                        ToCrowd)>>
    /\ UNCHANGED <<conn, joining, sessions, conductor_socket_id, _last_trigger,
                   _cleanup_task, created, clock, joined>>

\* handle_chord_trigger.
handle_chord_trigger(sid, data) ==
    /\ conn[sid] = "open"
    /\ LET a == _rate_ok(_last_trigger, sid)
           P == IF data.output # None \/ data.instrument # None
                THEN update_participant(sessions, participants, sid,
                                        None, data.output, data.instrument)[1]
                ELSE participants
           chord == get_chord_for_trigger(sessions, P, sid)
           participant == get_participant(P, sid)
       IN /\ _last_trigger' = a[1]
          /\ IF ~a[2]
             THEN /\ participants' = participants
                  /\ out' = << >>
             ELSE /\ participants' = P
                  /\ out' = IF chord = None \/ participant = None THEN << >>
                            ELSE <<send_crowd_chord(chord[1].instrument,
                                                    participant[1].username,
                                                    chord[1].output),
                                   Emit("chord:played",
                                        [socketId |-> sid,
                                         instrument |-> chord[1].instrument],
                                        ToCrowd)>>
    /\ UNCHANGED <<conn, joining, sessions, conductor_socket_id, _last_canvas,
                   _cleanup_task, created, clock, joined>>

\* The clocks move on to the next instant.
Advance ==
    /\ nAdv < MaxAdvances
    /\ nAdv' = nAdv + 1
    /\ now' = now + StepAfter(nAdv)
    /\ mono0' = mono0
    /\ out' = << >>
    /\ UNCHANGED <<conn, joining, show, limiter, _cleanup_task, created, joined>>

\* The steps of the server while every broadcast of the reaper is delivered.
Next ==
    \/ \E sid \in Sids : connect(sid)
    \/ \E sid \in Sids : disconnect(sid)
    \/ \E sid \in Sids, data \in JoinPayloads : handle_crowd_join_enter(sid, data)
    \/ \E sid \in Sids : handle_crowd_join(sid)
    \/ \E sid \in Drawers, data \in CanvasPayloads : handle_canvas_update(sid, data)
    \/ \E sid \in Drawers, data \in TriggerPayloads : handle_chord_trigger(sid, data)
    \/ _cleanup_inactive(FALSE)
    \/ Advance

Spec == Init /\ [][Next]_vars

\* The same server on a monotonic clock that has just started.
InitCold ==
    /\ conn = [s \in Sids |-> "new"]
    /\ joining = [s \in Sids |-> NoJoin]
    /\ sessions = {}
    /\ participants = << >>
    /\ conductor_socket_id = NoSid
    /\ _last_canvas = << >>
    /\ _last_trigger = << >>
    /\ _cleanup_task = "None"
    /\ created = 0
    /\ now = 0
    /\ mono0 \in ColdStarts
    /\ nAdv = 0
    /\ joined = {}
    /\ out = << >>

SpecCold == InitCold /\ [][Next]_vars

\* The same server over a transport on which a broadcast of the reaper may
\* raise.
NextFaulty ==
    \/ Next
    \/ _cleanup_inactive(TRUE)

SpecFaulty == Init /\ [][NextFaulty]_vars

\* ------------------------------------------------------------- properties
IsEmit(m) == "event" \in DOMAIN m
Emitted(seq, event) == {i \in 1..Len(seq) : IsEmit(seq[i]) /\ seq[i].event = event}
Events(seq) == [i \in 1..Len(seq) |-> IF IsEmit(seq[i]) THEN seq[i].event ELSE "osc"]
ConductorRequest(sid) ==
    handle_crowd_join(sid) /\ joining[sid][1].role = "conductor"

\* C1: the conductor slot holds at most one connection, and a conductor join
\* from a connection other than the occupant fails (join_conductor reports
\* failure, the requester gets crowd:error) and leaves the occupant in place.
C1_ConductorExclusive ==
    /\ [](conductor_socket_id \in Sids \cup {NoSid})
    /\ [][\A sid \in Sids :
            (ConductorRequest(sid) /\ conductor_socket_id \notin {NoSid, sid})
            => /\ ~join_conductor(conductor_socket_id, sid)[2]
               /\ Events(out') = <<"crowd:error">>
               /\ conductor_socket_id' = conductor_socket_id]_vars

\* A second connection has just been refused the slot that s2 holds.
C1_Witness ==
    /\ conductor_socket_id = "s2"
    /\ Events(out) = <<"crowd:error">>
    /\ out[1].to = ToSid("s1")

\* C2: a conductor join from the connection that already holds the slot
\* succeeds (no crowd:error) and the slot still holds that connection.
C2_ReclaimIdempotent ==
    [][\A sid \in Sids :
         (ConductorRequest(sid) /\ conductor_socket_id = sid)
         => /\ join_conductor(conductor_socket_id, sid)[2]
            /\ Emitted(out', "crowd:error") = {}
            /\ conductor_socket_id' = sid]_vars

Sends(seq) == {i \in 1..Len(seq) : ~IsEmit(seq[i])}
CanvasStep(sid) == \E data \in CanvasPayloads : handle_canvas_update(sid, data)
TriggerStep(sid) == \E data \in TriggerPayloads : handle_chord_trigger(sid, data)

\* A rate-limited handler obeys the cooldown against the entry of its store.
Cooldown(step, store, sid) ==
    (sid \in DOMAIN store /\ step)
    => /\ _rate_ok(store, sid)[2] <=> (Monotonic - store[sid] >= RATE_LIMIT_MS)
       /\ _rate_ok(store, sid)[2] => store'[sid] = Monotonic
       /\ ~_rate_ok(store, sid)[2] => store' = store

\* An entry of a store changes only to the present, the cooldown after its
\* last change.
StampedOnAdmission(store, sid) ==
    (sid \in DOMAIN store /\ sid \in DOMAIN store' /\ store'[sid] # store[sid])
    => (store'[sid] = Monotonic /\ Monotonic - store[sid] >= RATE_LIMIT_MS)

\* C3: after an event admitted at time t, the next event of the same class
\* from the same connection at time t2 is admitted iff t2 - t >= 80 ms, t being
\* the time of the last admitted event; a step sends at most one chord, and
\* only as an admitted chord:trigger.
C3_RateLimiterCooldown ==
    [][\A sid \in Sids :
         /\ Cooldown(CanvasStep(sid), _last_canvas, sid)
         /\ Cooldown(TriggerStep(sid), _last_trigger, sid)
         /\ StampedOnAdmission(_last_canvas, sid)
         /\ StampedOnAdmission(_last_trigger, sid)
         /\ Sends(out') # {}
            => /\ Cardinality(Sends(out')) = 1
               /\ \E x \in Sids : TriggerStep(x) /\ _rate_ok(_last_trigger, x)[2]]_vars

\* A chord:trigger of s1 a full cooldown after the first instant was admitted
\* and sent its chord.
C3_Witness ==
    /\ nAdv = 2
    /\ "s1" \in DOMAIN _last_trigger
    /\ _last_trigger["s1"] = mono0 + RATE_LIMIT_MS
    /\ Cardinality(Sends(out)) = 1

\* C4: once the disconnect handler of a connection has run, the connection
\* has no participant record, does not hold the conductor slot, and has no
\* entry in either rate-limiter map, whatever its other handlers do.
C4_DisconnectCleanup ==
    \A sid \in Sids :
        conn[sid] = "closed"
        => /\ sid \notin DOMAIN participants
           /\ conductor_socket_id # sid
           /\ sid \notin DOMAIN _last_canvas
           /\ sid \notin DOMAIN _last_trigger

\* C5: the participant store never holds more records than there are
\* connections that joined as participant and have not left since.
JoinedNotLeft == {sid \in joined : conn[sid] = "open"}
C5_StoreSizeBound ==
    Cardinality(DOMAIN participants) <= Cardinality(JoinedNotLeft)

Stale(p) == UtcNow - p.last_seen > INACTIVITY_TIMEOUT_SEC * 1000
ReaperStep == \E raised \in BOOLEAN : _cleanup_inactive(raised)

\* C6: a reaper tick removes every participant whose lastSeen is older than
\* 120 s and retains, unchanged, every other one; it broadcasts a snapshot
\* iff it removed at least one.
C6_ReaperEviction ==
    [][ReaperStep
       => /\ \A sid \in DOMAIN participants :
               IF Stale(participants[sid])
               THEN sid \notin DOMAIN participants'
               ELSE /\ sid \in DOMAIN participants'
                    /\ participants'[sid] = participants[sid]
          /\ DOMAIN participants' \subseteq DOMAIN participants
          /\ Events(out') =
               IF \E sid \in DOMAIN participants : Stale(participants[sid])
               THEN <<"crowd:snapshot">> ELSE << >>]_vars

\* A tick has evicted s1, whose connection is still open, kept s2 and
\* broadcast: no handler of an open connection without a record broadcasts a
\* snapshot alone.
C6_Witness ==
    /\ conn = [sid \in Sids |-> "open"]
    /\ DOMAIN participants = {"s2"}
    /\ "s1" \in DOMAIN _last_canvas
    /\ Events(out) = <<"crowd:snapshot">>
    /\ out[1].data[1].participantCount = 1

\* C7: a chord:trigger from a connection with no participant record, or whose
\* record's output has never been set and is not set by the trigger, sends
\* no chord and broadcasts no chord:played.
C7_TriggerWithoutOutput ==
    [][\A sid \in Sids, data \in TriggerPayloads :
         (/\ \/ sid \notin DOMAIN participants
             \/ participants[sid].output = None /\ data.output = None
          /\ handle_chord_trigger(sid, data))
         => out' = << >>]_vars

\* An admitted chord:trigger of s1, which has never had an output, emitted
\* nothing.
C7_Witness ==
    /\ "s1" \in DOMAIN _last_trigger
    /\ _last_trigger["s1"] = Monotonic
    /\ "s1" \in DOMAIN participants
    /\ participants["s1"].output = None
    /\ "s1" \notin DOMAIN _last_canvas
    /\ out = << >>

\* The OSC address part of an instrument name.
AddressOf(instrument) ==
    CASE instrument = "" -> "pad"
      [] instrument = "Synth " -> "synth"
      [] OTHER -> instrument

\* What a dispatched trigger of sid emits, for the record p it leaves.
Dispatched(sid, p) ==
    << [osc |-> <<"crowd", AddressOf(p.instrument), "chord">>,
        payload |-> <<p.username>> \o p.output[1]],
       Emit("chord:played", [socketId |-> sid, instrument |-> p.instrument],
            ToCrowd) >>

AdmittedTrigger(sid, data) ==
    /\ _rate_ok(_last_trigger, sid)[2]
    /\ sid \in DOMAIN participants'
    /\ participants'[sid].output # None
    /\ handle_chord_trigger(sid, data)

\* C8 as stated: every admitted chord:trigger of a participant whose output is
\* set, the trigger's own fields applied, emits exactly one crowd-send with
\* the participant's instrument, username and output, then one chord:played
\* naming the connection and instrument, and no crowd:snapshot.
C8_TriggerDispatch ==
    [][\A sid \in Sids, data \in TriggerPayloads :
         AdmittedTrigger(sid, data)
         => out' = Dispatched(sid, participants'[sid])]_vars

\* C8 amended: the same, for an output that is set and not empty.
C8_TriggerDispatchNonEmpty ==
    [][\A sid \in Sids, data \in TriggerPayloads :
         (AdmittedTrigger(sid, data) /\ participants'[sid].output # Some(EmptyOutput))
         => out' = Dispatched(sid, participants'[sid])]_vars

\* s1's trigger has sent its chord and announced it.
C8_Witness ==
    /\ Events(out) = <<"osc", "chord:played">>
    /\ out[2].data.socketId = "s1"
    /\ "s1" \in DOMAIN participants
    /\ out[1].payload = <<participants["s1"].username>> \o O1

\* C9: a conductor join of B while another connection holds the slot sends B
\* a private crowd:error and nothing else, leaves the occupant and the
\* participant store as they were, and hasConductor is true in the snapshot
\* before and after.
C9_ConductorConflict ==
    [][\A sid \in Sids :
         (ConductorRequest(sid) /\ conductor_socket_id \notin {NoSid, sid})
         => /\ Events(out') = <<"crowd:error">>
            /\ out'[1].to = ToSid(sid)
            /\ conductor_socket_id' = conductor_socket_id
            /\ participants' = participants
            /\ serialize(participants, conductor_socket_id).hasConductor
            /\ serialize(participants', conductor_socket_id').hasConductor]_vars

\* s2 has been refused the slot that s1 holds, with a participant in the
\* store.
C9_Witness ==
    /\ conductor_socket_id = "s1"
    /\ Events(out) = <<"crowd:error">>
    /\ out[1].to = ToSid("s2")
    /\ DOMAIN participants # {}

\* C10: a canvas:update or chord:trigger that the rate limiter rejects changes
\* neither rate-limiter map, no participant record and not the conductor
\* slot, and emits nothing.
C10_RejectionChangesNothing ==
    [][\A sid \in Sids :
         /\ (~_rate_ok(_last_canvas, sid)[2] /\ CanvasStep(sid))
            => (UNCHANGED <<limiter, show>> /\ out' = << >>)
         /\ (~_rate_ok(_last_trigger, sid)[2] /\ TriggerStep(sid))
            => (UNCHANGED <<limiter, show>> /\ out' = << >>)]_vars

\* s1's canvas:update, half a cooldown after its admitted one, was dropped:
\* the entry and the record's lastSeen are those of the first.
C10_Witness ==
    /\ "s1" \in DOMAIN _last_canvas
    /\ "s1" \in DOMAIN participants
    /\ Monotonic - _last_canvas["s1"] = ShortStep
    /\ participants["s1"].last_seen = UtcNow - ShortStep
    /\ participants["s1"].canvas # None
    /\ out = << >>

\* C11: a non-empty conductor slot changes only in the disconnect of its
\* occupant, which empties it: no crowd:join, canvas:update, chord:trigger or
\* disconnect of another connection and no reaper tick changes it.
C11_ConductorClearedByOccupantOnly ==
    [][\A sid \in Sids :
         (conductor_socket_id = sid /\ conductor_socket_id' # sid)
         => (disconnect(sid) /\ conductor_socket_id' = NoSid)]_vars

\* After the disconnect of s1 a broadcast shows no participant and the
\* conductor s2 still in place.
C11_Witness ==
    /\ conductor_socket_id = "s2"
    /\ conn["s1"] = "closed"
    /\ Events(out) = <<"crowd:snapshot">>
    /\ out[1].data[1].participantCount = 0
    /\ out[1].data[1].hasConductor

\* The steps that handle an event of connection sid.
EventStep(sid) ==
    \/ connect(sid)
    \/ disconnect(sid)
    \/ \E data \in JoinPayloads : handle_crowd_join_enter(sid, data)
    \/ handle_crowd_join(sid)
    \/ CanvasStep(sid)
    \/ TriggerStep(sid)

\* C12: the participant record of a connection is created or modified only by
\* an event of that connection, and removed only by one or by the reaper: an
\* event of X leaves the record of every Y # X as it was.
C12_SingleWriterPerKey ==
    [][\A y \in Sids :
         get_participant(participants', y) # get_participant(participants, y)
         => \/ EventStep(y)
            \/ ReaperStep /\ y \notin DOMAIN participants']_vars

\* s1's canvas:update has been applied and broadcast while s2 holds a record
\* older than it.
C12_Witness ==
    /\ DOMAIN participants = Sids
    /\ participants["s1"].canvas # None
    /\ participants["s1"].last_seen = UtcNow
    /\ participants["s2"].last_seen < UtcNow
    /\ Events(out) = <<"crowd:snapshot">>

\* C13: a disconnect that removed a participant record or released the
\* conductor slot broadcasts exactly one crowd:snapshot, which shows the show
\* state after the removal; a disconnect of a connection that held neither
\* emits nothing.
C13_DisconnectBroadcast ==
    [][\A sid \in Sids :
         disconnect(sid)
         => out' = IF sid \in DOMAIN participants \/ conductor_socket_id = sid
                   THEN <<Emit("crowd:snapshot",
                               Some(serialize(participants', conductor_socket_id')),
                               ToCrowd)>>
                   ELSE << >>]_vars

\* C14: a tick of the reaper whose broadcast raises does not end the reaper:
\* after every tick, failing or not, the task is still running (and so takes
\* the later ticks that evict who becomes stale).
C14_ReaperTickIsolation ==
    [][ReaperStep => _cleanup_task' = "running"]_vars

\* The record p with the fields an update provides, seen at the present.
Applied(p, canvas, output, instrument) ==
    [socket_id |-> p.socket_id,
     username |-> p.username,
     canvas |-> IF canvas = None THEN p.canvas ELSE canvas,
     output |-> IF output = None THEN p.output ELSE output,
     instrument |-> IF instrument = None THEN p.instrument ELSE instrument[1],
     last_seen |-> UtcNow]

\* What an update of sid's record does to the show and to the broadcasts.
SoftFailUpdate(sid, canvas, output, instrument) ==
    IF sid \notin DOMAIN participants
    THEN /\ UNCHANGED show
         /\ Emitted(out', "crowd:snapshot") = {}
    ELSE /\ DOMAIN participants' = DOMAIN participants
         /\ participants'[sid] = Applied(participants[sid], canvas, output, instrument)
         /\ \A y \in DOMAIN participants \ {sid} : participants'[y] = participants[y]
         /\ UNCHANGED <<sessions, conductor_socket_id>>

\* C15: an admitted canvas:update, or an admitted chord:trigger that carries
\* output or instrument, from a connection without a participant record
\* creates no record, changes no show state and broadcasts no crowd:snapshot;
\* from a connection with a record it changes only the fields provided, sets
\* lastSeen to now and leaves every other record untouched.  (An admitted
\* event always stamps its rate-limiter map.)
C15_SoftFailUpdate ==
    [][\A sid \in Sids :
         /\ \A data \in CanvasPayloads :
              (/\ _last_canvas' # _last_canvas
               /\ _rate_ok(_last_canvas, sid)[2]
               /\ handle_canvas_update(sid, data))
              => SoftFailUpdate(sid, data.canvas, data.output, data.instrument)
         /\ \A data \in TriggerPayloads :
              (/\ _last_trigger' # _last_trigger
               /\ _rate_ok(_last_trigger, sid)[2]
               /\ data.output # None \/ data.instrument # None
               /\ handle_chord_trigger(sid, data))
              => SoftFailUpdate(sid, None, data.output, data.instrument)]_vars

\* s1's canvas:update carrying only a canvas has been applied, some time
\* after its join, and broadcast: the output is still unset and the
\* instrument is that of the join.
C15_Witness ==
    /\ "s1" \in DOMAIN participants
    /\ participants["s1"].canvas = Some("png")
    /\ participants["s1"].output = None
    /\ participants["s1"].instrument = "Synth "
    /\ participants["s1"].last_seen = UtcNow
    /\ UtcNow > 0
    /\ Events(out) = <<"crowd:snapshot">>

\* The roles a connection holds in the show.
HasRecord(sid) == sid \in DOMAIN participants
IsConductor(sid) == conductor_socket_id = sid

\* C16: a connection is Unjoined, then ParticipantJoined or ConductorJoined,
\* then Left: it never has a participant record and the conductor slot at
\* once, and a crowd:join of a connection that is already joined has no
\* effect on the show.
C16_ConnectionStateMachine ==
    /\ [](\A sid \in Sids : ~(HasRecord(sid) /\ IsConductor(sid)))
    /\ [][\A sid \in Sids :
            (handle_crowd_join(sid) /\ (HasRecord(sid) \/ IsConductor(sid)))
            => UNCHANGED show]_vars

TriggeredLately(sid) ==
    /\ HasRecord(sid)
    /\ sid \in DOMAIN _last_trigger
    /\ _last_trigger[sid] - mono0 > participants[sid].last_seen
    /\ Monotonic - _last_trigger[sid] < INACTIVITY_TIMEOUT_SEC * 1000

\* C19: every admitted chord:trigger of a joined participant refreshes its
\* lastSeen, with or without output and instrument in the payload, and the
\* reaper does not evict a participant whose last admitted trigger is less
\* than the inactivity timeout old.
C19_ActivityKeepsAlive ==
    [][\A sid \in Sids :
         /\ \A data \in TriggerPayloads :
              (/\ _last_trigger' # _last_trigger
               /\ _rate_ok(_last_trigger, sid)[2]
               /\ HasRecord(sid)
               /\ handle_chord_trigger(sid, data))
              => participants'[sid].last_seen = UtcNow
         /\ (TriggeredLately(sid) /\ ReaperStep) => sid \in DOMAIN participants']_vars

\* The first event of a class from a connection without an entry in the
\* store of that class is admitted and leaves the other store alone.
FirstAdmitted(step, store, other, sid) ==
    (sid \notin DOMAIN store /\ step)
    => /\ _rate_ok(store, sid)[2]
       /\ sid \in DOMAIN store'
       /\ other' = other

\* C20: the first canvas:update and the first chord:trigger of a connection
\* that has no timestamp in the rate-limiter map of that class is admitted,
\* whatever the monotonic clock reads, and leaves the map of the other class
\* as it was.
C20_FirstEventAdmitted ==
    [][\A sid \in Drawers :
         /\ FirstAdmitted(CanvasStep(sid), _last_canvas, _last_trigger, sid)
         /\ FirstAdmitted(TriggerStep(sid), _last_trigger, _last_canvas, sid)]_vars
====
